---- MODULE Spec2Model ----
(***************************************************************************)
(* ZilaWS client: the ZilaConnection class of src/src/index.ts (lines      *)
(* 1-444), as a state machine.  One connection, its transport (the         *)
(* WebSocket it wraps), the application calling its public methods and the *)
(* peer sending texts.  JavaScript runs every handler to completion, so    *)
(* each transport callback and each public method is one atomic action.    *)
(***************************************************************************)
EXTENDS Integers, Sequences, FiniteSets, TLC

\* ------------------------------------------------------------------ bounds
MaxCalls == 3      \* public-method calls made by the application
MaxRpcCalls == 2   \* of them, in the specification of the remote-call methods
MaxMsgs == 2       \* texts delivered by the transport

\* ------------------------------------------------------------ value domains
\* An identifier is a string, modelled as the sequence of its tokens so that
\* "@" + identifier and identifier[0] == "@" are computed, not assumed.
Sigil == "@"
Null == <<>>                       \* callbackId: null
Identifiers == {<<"h">>, <<Sigil, "h">>}   \* names handlers are registered under
RemoteIdentifiers == {<<"h">>}             \* names of the peer's handlers
PeerCallbackIds == {<<"p1">>}      \* correlation ids chosen by the peer

\* Argument values: two JSON strings, a callable, and undefined.
Callable == "fn"
Undefined == "undef"
JsonNull == "null"
JsonValues == {"a", "b"}
ArgLists == {<<"b", "a">>, <<Callable>>}

\* message: any[] | null
Msg(args) == [isNull |-> FALSE, args |-> args]
NullMsg == [isNull |-> TRUE, args |-> <<>>]

\* WSStatus
OPENING == "OPENING"
OPEN == "OPEN"
CLOSED == "CLOSED"
ERROR == "ERROR"

\* errorCallbackType values: none given, the one given to connectTo, the one
\* given to setErrorHandler.
NoCallback == "none"
ErrorCallbacks == {"cb1", "cb2"}

CloseCodes == {"NORMAL", "KICKED", "BANNED"}
Reasons == {"", "A reason"}

\* keyof ICallableLocalEvents the application registers listeners for, and the
\* functions it registers.
EventTypes == {"onStatusChange", "onMessageRecieved"}
UserListeners == {"f", "g"}
\* A function of the application that raises an exception when called.
Throwing == "t"

\* A text that JSON.parse rejects, and the envelopes it accepts.
MalformedText == [malformed |-> TRUE]
WellFormed(msg) == "identifier" \in DOMAIN msg

\* The readyState standing for a transport whose process the runtime has
\* ended: an unhandled promise rejection ends a Node process.
Terminated == "TERMINATED"

VARIABLES
    status,               \* this._status
    connection,           \* the transport: readyState of this.connection
    wsErrored,            \* the transport has emitted its error event
    connectPromise,       \* promise returned by connectTo
    errorCallback,        \* this.errorCallback
    connectErrorCallback, \* errorCallback parameter captured by ws.onerror
    localEventCallbacks,  \* this.localEventCallbacks
    callbacks,            \* this.callbacks
    sent,                 \* texts handed to this.connection.send, in order
    waiters,              \* promises returned by waiter, in call order
    pendingResults,       \* handler results not yet available (.then pending)
    invoked,              \* number of message-handler invocations so far
    nextUuid,             \* number of randomUUID() calls so far
    nextOnce,             \* number of onceCallback closures created so far
    disconnects,          \* promises returned by disconnectAsync, in call order
    errLog,               \* invocations of error callbacks, in order
    notified,             \* invocations of listener callbacks, in order
    lastCall,             \* the last public-method call: the method, how it
                          \* returned, the status it was made in, and whether
                          \* it called this.connection.close()
    ncalls,               \* public-method calls so far
    nmsgs                 \* texts delivered so far

vars == <<status, connection, wsErrored, connectPromise, errorCallback,
          connectErrorCallback, localEventCallbacks, callbacks, sent, waiters,
          pendingResults, invoked, nextUuid, nextOnce, disconnects, errLog,
          notified, lastCall, ncalls, nmsgs>>

\* ---------------------------------------------------------------- helpers
RemoveAt(s, i) == SubSeq(s, 1, i - 1) \o SubSeq(s, i + 1, Len(s))

\* Array.prototype.indexOf on identity; 0 when absent (JS: -1).
IndexOf(arr, l) ==
    IF \E i \in 1..Len(arr) : arr[i] = l
    THEN CHOOSE i \in 1..Len(arr) : arr[i] = l /\ \A j \in 1..(i - 1) : arr[j] # l
    ELSE 0

\* {}
EmptyObject == [x \in {} |-> x]
\* delete obj[key]
Delete(f, k) == [x \in DOMAIN f \ {k} |-> f[x]]
\* obj[key] = v
Put(f, k, v) == [x \in DOMAIN f \cup {k} |-> IF x = k THEN v ELSE f[x]]

\* ------------------------------------------------------------- connectTo
\* The promise of connectTo: state, number of resolve/reject calls made on it,
\* and the connection status at the moment resolve(socket) was called.
ConnectIdle == [state |-> "idle", settles |-> 0, statusAtResolve |-> "-"]

\* resolve(socket) / reject(reason): only the first call settles a promise.
Settle(p, how, st) ==
    [state |-> IF p.state = "pending" THEN how ELSE p.state,
     settles |-> p.settles + 1,
     statusAtResolve |-> IF p.state = "pending" /\ how = "resolved"
                         THEN st ELSE p.statusAtResolve]

\* Mutant: the listener resolves whatever status it is called with.
ConnectListener_AlwaysResolves(p, v, st) == Settle(p, "resolved", st)

\* Mutant: the listener rejects on ERROR alone.
ConnectListener_OnlyError(p, v, st) ==
    IF v = ERROR THEN Settle(p, "rejected", st) ELSE Settle(p, "resolved", st)

\* The one-shot listener connectTo registers (lines 139-145).
ConnectListener(p, v, st) ==
    IF v \in {CLOSED, ERROR} THEN Settle(p, "rejected", st)
    ELSE Settle(p, "resolved", st)

\* --------------------------------------------------------- listener registry
\* A registered callback: fn/n is its identity (a user function "f", or the
\* n-th onceCallback closure), cb the function a onceCallback wraps.
Listener(fn, n, once, cb) == [fn |-> fn, n |-> n, once |-> once, cb |-> cb]

\* Mutant: no early return when the callback is not found; splice(-1, 1)
\* removes the last element.
removeEventListener_NoGuard(reg, eventType, l) ==
    IF eventType \notin DOMAIN reg THEN reg
    ELSE LET array == reg[eventType]
             id == IF IndexOf(array, l) = 0 THEN Len(array) ELSE IndexOf(array, l)
         IN IF Len(array) = 1 THEN Delete(reg, eventType)
            ELSE Put(reg, eventType, RemoveAt(array, id))

\* Mutant: the key of an emptied array is kept.
removeEventListener_KeepsKey(reg, eventType, l) ==
    IF eventType \notin DOMAIN reg THEN reg
    ELSE LET array == reg[eventType]
             id == IndexOf(array, l)
         IN IF id = 0 THEN reg
            ELSE Put(reg, eventType, RemoveAt(array, id))

\* removeEventListener (lines 324-337)
removeEventListener(reg, eventType, l) ==
    IF eventType \notin DOMAIN reg THEN reg
    ELSE LET array == reg[eventType]
             id == IndexOf(array, l)
         IN IF id = 0 THEN reg
            ELSE IF Len(array) = 1 THEN Delete(reg, eventType)
            ELSE Put(reg, eventType, RemoveAt(array, id))

\* for (const callback of array) callback(v): the array iterator reads the
\* live array by index; a onceCallback splices itself out of that same array
\* before calling what it wraps.  Returns the callbacks called, in order.
\* A callback that raises an exception ends the loop: nothing catches it.
Raised(called) == called # <<>> /\ called[Len(called)].cb = Throwing

RECURSIVE Iterate(_, _, _)
Iterate(array, i, called) ==
    IF i > Len(array) \/ Raised(called) THEN called
    ELSE LET l == array[i]
             after == IF l.once THEN RemoveAt(array, IndexOf(array, l)) ELSE array
         IN Iterate(after, i + 1, Append(called, l))

Called(reg, eventType) ==
    IF eventType \in DOMAIN reg THEN Iterate(reg[eventType], 1, <<>>) ELSE <<>>

RECURSIVE RemoveAll(_, _, _)
RemoveAll(reg, eventType, ls) ==
    IF ls = <<>> THEN reg
    ELSE RemoveAll(IF Head(ls).once THEN removeEventListener(reg, eventType, Head(ls))
                   ELSE reg, eventType, Tail(ls))

\* The registry after a notification of eventType.
AfterNotify(reg, eventType) == RemoveAll(reg, eventType, Called(reg, eventType))

\* ---------------------------------------------------------- envelope codec
\* JSON.stringify of one array element: a function or undefined becomes null.
JSONValue(v) == IF v \in {Callable, Undefined} THEN JsonNull ELSE v

JSONArray(data) == [i \in 1..Len(data) |-> JSONValue(data[i])]

\* getMessageJSON (lines 238-250): the text handed to the transport, as the
\* envelope JSON.parse reads back from it.
getMessageJSON(identifier, data, callbackId, isBuiltIn) ==
    [identifier |-> IF isBuiltIn THEN identifier ELSE <<Sigil>> \o identifier,
     message |-> Msg(JSONArray(data)),
     callbackId |-> callbackId]

\* randomUUID(): the n-th call returns a value no other call returns.
RandomUUID(n) == <<"uuid" \o ToString(n)>>

IssuedUuids == {RandomUUID(k) : k \in 1..nextUuid}

\* ------------------------------------------------------------ handler table
\* A ZilaWSCallback given by the application: what it returns, and whether it
\* returns it through a promise that resolves in a later task.
UserCallback(ret, async) == [kind |-> "user", ret |-> ret, async |-> async, w |-> 0]
UserCallbacks == {UserCallback("a", FALSE), UserCallback("b", TRUE)}

\* A callback that returns, through a promise, its first argument.
EchoCallback == [kind |-> "echo", ret |-> Undefined, async |-> TRUE, w |-> 0]

\* A callback that, while it runs, registers a handler under the identifier it
\* was called for.
RegisteringCallback(async) ==
    [kind |-> "register", ret |-> "a", async |-> async, w |-> 0]

\* Mutant: every closure resolves the first promise.
ResolveCallback_Shared(w) ==
    [kind |-> "resolve", ret |-> Undefined, async |-> FALSE, w |-> 1]

\* The closure waiter registers (lines 281-283) for its w-th promise.
ResolveCallback(w) == [kind |-> "resolve", ret |-> Undefined, async |-> FALSE, w |-> w]

\* setMessageHandler (lines 363-365)
setMessageHandler(table, identifier, cb) ==
    Put(table, identifier, [once |-> FALSE, cb |-> cb])

\* Mutant: the registration is left in the table.
removeMessageHandler_Keeps(table, identifier) == table

\* removeMessageHandler (lines 371-373)
removeMessageHandler(table, identifier) ==
    IF identifier \in DOMAIN table THEN Delete(table, identifier) ELSE table

\* onceMessageHandler (lines 380-386)
onceMessageHandler(table, identifier, cb) ==
    Put(table, identifier, [once |-> TRUE, cb |-> cb])

\* What running the callback cb, invoked for identifier, does to the table.
Runs(cb, table, identifier) ==
    IF cb.kind = "register"
    THEN setMessageHandler(table, identifier, UserCallback("a", FALSE))
    ELSE table

\* Mutant: the wrapper removes the registration after the callback has run.
OnceWrapper_RemovesAfter(table, identifier, cb) ==
    removeMessageHandler(Runs(cb, table, identifier), identifier)

\* The wrapper onceMessageHandler registers (lines 381-385), invoked:
\* this.removeMessageHandler(identifier), then callback(...args).
OnceWrapper(table, identifier, cb) ==
    Runs(cb, removeMessageHandler(table, identifier), identifier)

\* Mutant: a null message counts as an empty argument list.
Truthy_Always(message) == TRUE

\* msgObj.message as a condition (line 221): null is falsy, an array truthy.
Truthy(message) == ~message.isNull

\* The text inbound envelopes are drawn from.
InMessages == {Msg(<<"a">>), Msg(<<"b">>), NullMsg}
Texts ==
    [identifier : Identifiers \cup IssuedUuids,
     message : InMessages,
     callbackId : {Null} \cup PeerCallbackIds]

\* resolve(args) of the w-th waiter promise
ResolveWaiter(ws, w, value) ==
    IF ws[w].state = "pending"
    THEN [ws EXCEPT ![w] = [@ EXCEPT !.state = "resolved", !.value = value]]
    ELSE ws

\* Mutant: the callback does not read its argument.
FirstArg_Ignored(args) == Undefined

\* Mutant: the callback reads its last argument.
FirstArg_Last(args) == IF Len(args) >= 1 THEN args[Len(args)] ELSE Undefined

\* callback(...msgObj.message): the first positional argument a callback sees
FirstArg(args) == IF Len(args) >= 1 THEN args[1] ELSE Undefined

\* The value the callback cb returns when called with args.
Result(cb, args) == IF cb.kind = "echo" THEN FirstArg(args) ELSE cb.ret

\* One entry of the listener-call log per callback called with arg.
Calls(called, eventType, arg) ==
    [i \in 1..Len(called) |-> [ev |-> eventType, l |-> called[i], arg |-> arg]]

\* ------------------------------------------------------------------ status
\* What the one-shot listeners of connectTo do to its promise.
RECURSIVE SettleAll(_, _, _)
SettleAll(p, called, v) ==
    IF called = <<>> THEN p
    ELSE SettleAll(IF Head(called).cb = "connect" THEN ConnectListener(p, v, v) ELSE p,
                   Tail(called), v)

\* The one-shot listener disconnectAsync registers (lines 420-424), for the
\* promises ds: resolve() when the status it is called with is CLOSED.
DisconnectListeners(ds, called, v) ==
    [d \in 1..Len(ds) |->
        IF /\ v = CLOSED
           /\ \E i \in 1..Len(called) :
                 called[i].cb = "disconnectAsync" /\ called[i].n = ds[d].n
        THEN [ds[d] EXCEPT !.state = "resolved"]
        ELSE ds[d]]

\* set status(v) (lines 79-86): the field, then every onStatusChange callback.
SetStatus(v) ==
    LET called == Called(localEventCallbacks, "onStatusChange")
    IN /\ status' = v
       /\ localEventCallbacks' = AfterNotify(localEventCallbacks, "onStatusChange")
       /\ notified' = notified \o Calls(called, "onStatusChange", v)
       /\ connectPromise' = SettleAll(connectPromise, called, v)
       /\ disconnects' = DisconnectListeners(disconnects, called, v)

\* ------------------------------------------------------------------- Init
Init ==
    /\ status = OPENING
    /\ connection = "NONE"
    /\ wsErrored = FALSE
    /\ connectPromise = ConnectIdle
    /\ errorCallback = NoCallback
    /\ connectErrorCallback = NoCallback
    /\ localEventCallbacks = EmptyObject
    /\ callbacks = EmptyObject
    /\ sent = <<>>
    /\ waiters = <<>>
    /\ pendingResults = <<>>
    /\ invoked = 0
    /\ nextUuid = 0
    /\ nextOnce = 0
    /\ disconnects = <<>>
    /\ errLog = <<>>
    /\ notified = <<>>
    /\ lastCall = [op |-> "none", result |-> "none", status |-> OPENING,
                    closes |-> FALSE]
    /\ ncalls = 0
    /\ nmsgs = 0

\* Variables by the part of the connection they belong to.
rpcVars == <<callbacks, sent, waiters, pendingResults, invoked, nextUuid>>
registryVars == <<localEventCallbacks, nextOnce, notified>>
transportVars == <<connection, wsErrored>>
callVars == <<lastCall, ncalls>>

\* connectTo(wsUrl, errorCallback) (lines 99-147) with the constructor
\* (lines 149-172).  urlOk = FALSE: new WebSocket(wsUrl) throws.
ConnectTo(urlOk, cb) ==
    /\ connectPromise.state = "idle"
    /\ connectErrorCallback' = cb
    /\ IF ~urlOk
       THEN /\ errLog' = IF cb # NoCallback
                         THEN Append(errLog, [cb |-> cb, reason |-> "stack"])
                         ELSE errLog
            /\ connectPromise' = Settle([connectPromise EXCEPT !.state = "pending"],
                                        "rejected", status)
            /\ UNCHANGED <<connection, errorCallback, localEventCallbacks, nextOnce>>
       ELSE /\ connection' = "CONNECTING"
            /\ errorCallback' = cb
            /\ nextOnce' = nextOnce + 1
            /\ localEventCallbacks' =
                   Put(localEventCallbacks, "onStatusChange",
                       <<Listener("once", nextOnce + 1, TRUE, "connect")>>)
            /\ connectPromise' = [connectPromise EXCEPT !.state = "pending"]
            /\ UNCHANGED errLog
    /\ UNCHANGED <<status, wsErrored, rpcVars, disconnects, notified, callVars, nmsgs>>

\* this.connection.onopen (lines 154-156)
TransportOpen ==
    /\ connection = "CONNECTING"
    /\ connection' = "OPEN"
    /\ SetStatus(OPEN)
    /\ UNCHANGED <<wsErrored, errorCallback, connectErrorCallback, rpcVars, nextOnce,
                   errLog, callVars, nmsgs>>

\* Mutant: the error handler also assigns the status, as onopen and onclose do.
TransportError_SetsError ==
    /\ connection \in {"CONNECTING", "OPEN", "CLOSING"}
    /\ ~wsErrored
    /\ wsErrored' = TRUE
    /\ connection' = "CLOSING"
    /\ SetStatus(ERROR)
    /\ errLog' = IF connectErrorCallback # NoCallback
                 THEN Append(errLog, [cb |-> connectErrorCallback, reason |-> Undefined])
                 ELSE errLog
    /\ UNCHANGED <<errorCallback, connectErrorCallback, rpcVars, nextOnce, callVars,
                   nmsgs>>

\* ws.onerror (lines 125-129): errorCallback?.call(ev.message) calls the
\* callback given to connectTo, with no argument.  The status is not touched.
\* The transport tears the socket down after an error: a close event follows.
TransportError ==
    /\ connection \in {"CONNECTING", "OPEN", "CLOSING"}
    /\ ~wsErrored
    /\ wsErrored' = TRUE
    /\ connection' = "CLOSING"
    /\ errLog' = IF connectErrorCallback # NoCallback
                 THEN Append(errLog, [cb |-> connectErrorCallback, reason |-> Undefined])
                 ELSE errLog
    /\ UNCHANGED <<status, connectPromise, errorCallback, connectErrorCallback,
                   rpcVars, registryVars, disconnects, callVars, nmsgs>>

\* Mutant: closing the connection settles the waiters that are still pending
\* and removes their handlers.
TransportClose_SettlesWaiters(code, reason) ==
    /\ connection \in {"OPEN", "CLOSING"}
    /\ connection' = "CLOSED"
    /\ SetStatus(CLOSED)
    /\ errLog' = IF errorCallback # NoCallback
                 THEN Append(errLog, [cb |-> errorCallback, reason |-> reason])
                 ELSE errLog
    /\ waiters' = [w \in 1..Len(waiters) |->
                      IF waiters[w].state = "pending"
                      THEN [waiters[w] EXCEPT !.state = "resolved", !.value = Undefined]
                      ELSE waiters[w]]
    /\ callbacks' = [id \in DOMAIN callbacks \ IssuedUuids |-> callbacks[id]]
    /\ UNCHANGED <<wsErrored, errorCallback, connectErrorCallback, sent,
                   pendingResults, invoked, nextUuid, nextOnce, callVars, nmsgs>>

\* Mutant: a kick closes the connection without reporting it.
TransportClose_SilentKick(code, reason) ==
    /\ connection \in {"OPEN", "CLOSING"}
    /\ connection' = "CLOSED"
    /\ SetStatus(CLOSED)
    /\ errLog' = IF errorCallback # NoCallback /\ code # "KICKED"
                 THEN Append(errLog, [cb |-> errorCallback, reason |-> reason])
                 ELSE errLog
    /\ UNCHANGED <<wsErrored, errorCallback, connectErrorCallback, rpcVars, nextOnce,
                   callVars, nmsgs>>

\* this.connection.onclose (lines 158-167); an exception of a status listener
\* leaves the setter and the handler before line 166.
TransportClose(code, reason) ==
    /\ connection \in {"OPEN", "CLOSING"}
    /\ connection' = "CLOSED"
    /\ SetStatus(CLOSED)
    /\ errLog' = IF /\ errorCallback # NoCallback
                    /\ ~Raised(Called(localEventCallbacks, "onStatusChange"))
                 THEN Append(errLog, [cb |-> errorCallback, reason |-> reason])
                 ELSE errLog
    /\ UNCHANGED <<wsErrored, errorCallback, connectErrorCallback, rpcVars, nextOnce,
                   callVars, nmsgs>>

\* Mutant: every identifier is an ordinary one.
IsControl_Never(msgObj) == FALSE

\* msgObj.identifier[0] == "@" (line 188)
IsControl(msgObj) == Len(msgObj.identifier) >= 1 /\ msgObj.identifier[1] = Sigil

\* this.callbacks[identifier] when there is no such key
NoHandler ==
    [once |-> FALSE,
     cb |-> [kind |-> "undefined", ret |-> Undefined, async |-> FALSE, w |-> 0]]

\* Mutant: an identifier without a handler gets a default one.
Lookup_Default(table, identifier) ==
    IF identifier \in DOMAIN table THEN table[identifier]
    ELSE [once |-> FALSE, cb |-> UserCallback("a", FALSE)]

\* Mutant: no handler is found while the result of another is pending.
Lookup_Busy(table, identifier) ==
    IF identifier \in DOMAIN table /\ pendingResults = <<>>
    THEN table[identifier] ELSE NoHandler

\* this.callbacks[msgObj.identifier] (line 220)
Lookup(table, identifier) ==
    IF identifier \in DOMAIN table THEN table[identifier] ELSE NoHandler

\* What the runtime does with the rejected promise of callEventHandler, which
\* onmessage (lines 169-171) drops: it reports it, or it ends the process.
Rejected(readyState) == {readyState, Terminated}

\* callEventHandler (lines 178-228); onmessage (lines 169-171) calls it.
callEventHandler(msg) ==
    LET msgObj == msg
        raw == Called(localEventCallbacks, "onRawMessageRecieved")
        afterRaw == AfterNotify(localEventCallbacks, "onRawMessageRecieved")
        control == IsControl(msgObj)
        recieved == Called(afterRaw, "onMessageRecieved")
        afterMsg == AfterNotify(afterRaw, "onMessageRecieved")
        entry == Lookup(callbacks, msgObj.identifier)
        found == entry # NoHandler /\ Truthy(msgObj.message)
        ret == Result(entry.cb, msgObj.message.args)
    IN IF Raised(raw) \/ ~WellFormed(msg)
       THEN \* a raw listener or JSON.parse (line 185) threw
            /\ localEventCallbacks' = afterRaw
            /\ notified' = notified \o Calls(raw, "onRawMessageRecieved", msg)
            /\ connection' \in Rejected(connection)
            /\ UNCHANGED <<callbacks, waiters, sent, pendingResults, invoked>>
       ELSE IF ~control /\ Raised(recieved)
       THEN \* a message listener threw
            /\ localEventCallbacks' = afterMsg
            /\ notified' = notified \o Calls(raw, "onRawMessageRecieved", msg)
                              \o Calls(recieved, "onMessageRecieved", msgObj.message)
            /\ connection' \in Rejected(connection)
            /\ UNCHANGED <<callbacks, waiters, sent, pendingResults, invoked>>
       ELSE
       /\ connection' = connection
       /\ localEventCallbacks' = IF control THEN afterRaw ELSE afterMsg
       /\ notified' = notified \o Calls(raw, "onRawMessageRecieved", msg)
                         \o IF control THEN <<>>
                            ELSE Calls(recieved, "onMessageRecieved", msgObj.message)
       /\ IF control \/ ~found
          THEN UNCHANGED <<callbacks, waiters, sent, pendingResults, invoked>>
          ELSE /\ invoked' = invoked + 1
               /\ callbacks' = IF entry.once
                               THEN OnceWrapper(callbacks, msgObj.identifier,
                                                entry.cb)
                               ELSE Runs(entry.cb, callbacks, msgObj.identifier)
               /\ waiters' = IF entry.cb.kind = "resolve"
                             THEN ResolveWaiter(waiters, entry.cb.w,
                                                FirstArg(msgObj.message.args))
                             ELSE waiters
               /\ IF entry.cb.async
                  THEN /\ pendingResults' =
                              Append(pendingResults,
                                     [callbackId |-> msgObj.callbackId,
                                      val |-> ret])
                       /\ UNCHANGED sent
                  ELSE /\ sent' = IF msgObj.callbackId # Null
                                  THEN Append(sent, getMessageJSON(msgObj.callbackId,
                                                        <<ret>>, Null, FALSE))
                                  ELSE sent
                       /\ UNCHANGED pendingResults

\* An open transport delivers texts; the ws transport still delivers those that
\* arrive during its closing handshake.
TransportMessage(text) ==
    /\ connection = "OPEN" \/ (connection = "CLOSING" /\ ~wsErrored)
    /\ nmsgs < MaxMsgs
    /\ nmsgs' = nmsgs + 1
    /\ callEventHandler(text)
    /\ UNCHANGED <<status, wsErrored, connectPromise, errorCallback,
                   connectErrorCallback, nextUuid, nextOnce, disconnects, errLog,
                   callVars>>

\* The .then of lines 222-226, for a handler whose result arrives later.
HandlerResult(i) ==
    /\ connection # Terminated
    /\ i \in 1..Len(pendingResults)
    /\ pendingResults' = RemoveAt(pendingResults, i)
    /\ sent' = IF pendingResults[i].callbackId # Null
               THEN Append(sent, getMessageJSON(pendingResults[i].callbackId,
                                                <<pendingResults[i].val>>, Null, FALSE))
               ELSE sent
    /\ UNCHANGED <<status, transportVars, connectPromise, errorCallback,
                   connectErrorCallback, callbacks, waiters, invoked, nextUuid,
                   registryVars, disconnects, errLog, callVars, nmsgs>>

\* ------------------------------------------------------------ public methods
\* The application holds the connection only once connectTo has resolved.
CanCall ==
    /\ connectPromise.state = "resolved"
    /\ connection # Terminated
    /\ ncalls < MaxCalls

\* One more call, of method op, which returned (result = "ok") or threw, and
\* called this.connection.close() or not.
Call(op, result, closes) ==
    /\ ncalls' = ncalls + 1
    /\ lastCall' = [op |-> op, result |-> result, status |-> status,
                    closes |-> closes]

Returned(op, result) == Call(op, result, FALSE)

\* send (lines 267-269)
Send(identifier, data) ==
    /\ CanCall
    /\ Returned("send", "ok")
    /\ sent' = Append(sent, getMessageJSON(identifier, data, Null, FALSE))
    /\ UNCHANGED <<status, transportVars, connectPromise, errorCallback,
                   connectErrorCallback, callbacks, waiters, pendingResults, invoked,
                   nextUuid, registryVars, disconnects, errLog, nmsgs>>

\* waiter (lines 277-287)
Waiter(identifier, data) ==
    LET uuid == RandomUUID(nextUuid + 1)
    IN /\ CanCall
       /\ Returned("waiter", "ok")
       /\ nextUuid' = nextUuid + 1
       /\ waiters' = Append(waiters, [uuid |-> uuid, state |-> "pending", value |-> "-"])
       /\ callbacks' = onceMessageHandler(callbacks, uuid, ResolveCallback(Len(waiters) + 1))
       /\ sent' = Append(sent, getMessageJSON(identifier, data, uuid, FALSE))
       /\ UNCHANGED <<status, transportVars, connectPromise, errorCallback,
                      connectErrorCallback, pendingResults, invoked, registryVars,
                      disconnects, errLog, nmsgs>>

\* setMessageHandler, onceMessageHandler and removeMessageHandler, called by
\* the application.
SetMessageHandler(identifier, cb) ==
    /\ CanCall
    /\ Returned("setMessageHandler", "ok")
    /\ callbacks' = setMessageHandler(callbacks, identifier, cb)
    /\ UNCHANGED <<status, transportVars, connectPromise, errorCallback,
                   connectErrorCallback, sent, waiters, pendingResults, invoked,
                   nextUuid, registryVars, disconnects, errLog, nmsgs>>

OnceMessageHandler(identifier, cb) ==
    /\ CanCall
    /\ Returned("onceMessageHandler", "ok")
    /\ callbacks' = onceMessageHandler(callbacks, identifier, cb)
    /\ UNCHANGED <<status, transportVars, connectPromise, errorCallback,
                   connectErrorCallback, sent, waiters, pendingResults, invoked,
                   nextUuid, registryVars, disconnects, errLog, nmsgs>>

RemoveMessageHandler(identifier) ==
    /\ CanCall
    /\ Returned("removeMessageHandler", "ok")
    /\ callbacks' = removeMessageHandler(callbacks, identifier)
    /\ UNCHANGED <<status, transportVars, connectPromise, errorCallback,
                   connectErrorCallback, sent, waiters, pendingResults, invoked,
                   nextUuid, registryVars, disconnects, errLog, nmsgs>>

\* WebSocket.close(): starts the closing handshake of an open transport and
\* does nothing to one that is closing or closed.
Close(readyState) == IF readyState = "OPEN" THEN "CLOSING" ELSE readyState

\* disconnect (lines 403-405)
Disconnect ==
    /\ CanCall
    /\ Call("disconnect", "ok", TRUE)
    /\ connection' = Close(connection)
    /\ UNCHANGED <<status, wsErrored, connectPromise, errorCallback,
                   connectErrorCallback, rpcVars, registryVars, disconnects, errLog,
                   nmsgs>>

\* Mutant: the callback is pushed without looking for it first.
addEventListener_NoCheck(reg, eventType, l) ==
    Put(reg, eventType,
        Append(IF eventType \in DOMAIN reg THEN reg[eventType] ELSE <<>>, l))

\* addEventListener (lines 306-317), on a registry; Threw when it throws.
Threw == [threw |-> TRUE]
addEventListener(reg, eventType, l) ==
    IF eventType \in DOMAIN reg /\ IndexOf(reg[eventType], l) > 0
    THEN Threw
    ELSE Put(reg, eventType,
             Append(IF eventType \in DOMAIN reg THEN reg[eventType] ELSE <<>>, l))

\* The identity of a function the application passes as a callback.
UserListener(f) == Listener(f, 0, FALSE, f)
\* The onceCallback closure of the n-th onceEventListener call (lines 349-352).
OnceCallback(n, cb) == Listener("once", n, TRUE, cb)

AddEventListener(eventType, f) ==
    LET reg == addEventListener(localEventCallbacks, eventType, UserListener(f))
    IN /\ CanCall
       /\ IF reg = Threw
          THEN Returned("addEventListener", "threw") /\ UNCHANGED localEventCallbacks
          ELSE Returned("addEventListener", "ok") /\ localEventCallbacks' = reg
       /\ UNCHANGED <<status, transportVars, connectPromise, errorCallback,
                      connectErrorCallback, rpcVars, nextOnce, notified, disconnects,
                      errLog, nmsgs>>

RemoveEventListener(eventType, f) ==
    /\ CanCall
    /\ Returned("removeEventListener", "ok")
    /\ localEventCallbacks' =
           removeEventListener(localEventCallbacks, eventType, UserListener(f))
    /\ UNCHANGED <<status, transportVars, connectPromise, errorCallback,
                   connectErrorCallback, rpcVars, nextOnce, notified, disconnects,
                   errLog, nmsgs>>

\* onceEventListener (lines 346-355)
OnceEventListener(eventType, f) ==
    /\ CanCall
    /\ Returned("onceEventListener", "ok")
    /\ nextOnce' = nextOnce + 1
    /\ localEventCallbacks' =
           addEventListener(localEventCallbacks, eventType, OnceCallback(nextOnce + 1, f))
    /\ UNCHANGED <<status, transportVars, connectPromise, errorCallback,
                   connectErrorCallback, rpcVars, notified, disconnects, errLog, nmsgs>>

\* setErrorHandler (lines 393-398)
SetErrorHandler(cb) ==
    /\ CanCall
    /\ Returned("setErrorHandler", "ok")
    /\ errorCallback' = cb
    /\ UNCHANGED <<status, transportVars, connectPromise, connectErrorCallback,
                   rpcVars, registryVars, disconnects, errLog, nmsgs>>

\* Mutant: no early return for a connection that is already closed.
DisconnectAsync_NoEarlyReturn ==
    /\ CanCall
    /\ Call("disconnectAsync", "ok", TRUE)
    /\ disconnects' = Append(disconnects, [state |-> "pending", n |-> nextOnce + 1])
    /\ nextOnce' = nextOnce + 1
    /\ localEventCallbacks' =
           addEventListener(localEventCallbacks, "onStatusChange",
                            OnceCallback(nextOnce + 1, "disconnectAsync"))
    /\ connection' = Close(connection)
    /\ UNCHANGED <<status, wsErrored, connectPromise, errorCallback,
                   connectErrorCallback, rpcVars, notified, errLog, nmsgs>>

\* disconnectAsync (lines 412-428)
DisconnectAsync ==
    /\ CanCall
    /\ IF status = CLOSED
       THEN /\ Returned("disconnectAsync", "ok")
            /\ disconnects' = Append(disconnects, [state |-> "resolved", n |-> 0])
            /\ UNCHANGED <<connection, localEventCallbacks, nextOnce>>
       ELSE /\ Call("disconnectAsync", "ok", TRUE)
            /\ disconnects' = Append(disconnects, [state |-> "pending", n |-> nextOnce + 1])
            /\ nextOnce' = nextOnce + 1
            /\ localEventCallbacks' =
                   addEventListener(localEventCallbacks, "onStatusChange",
                                    OnceCallback(nextOnce + 1, "disconnectAsync"))
            /\ connection' = Close(connection)
    /\ UNCHANGED <<status, wsErrored, connectPromise, errorCallback,
                   connectErrorCallback, rpcVars, notified, errLog, nmsgs>>

\* ---------------------------------------------------------- specifications
Connect == \E urlOk \in BOOLEAN, cb \in {NoCallback, "cb1"} : ConnectTo(urlOk, cb)
TransportClosed == \E code \in CloseCodes, reason \in Reasons : TransportClose(code, reason)

\* The connection with its remote-call methods, connected without an error
\* callback, the application making up to MaxRpcCalls calls.
RpcCall == ncalls < MaxRpcCalls

Next ==
    \/ \E urlOk \in BOOLEAN : ConnectTo(urlOk, NoCallback)
    \/ TransportOpen
    \/ TransportError
    \/ TransportClosed
    \/ \E text \in Texts : TransportMessage(text)
    \/ TransportMessage(MalformedText)
    \/ \E i \in 1..Len(pendingResults) : HandlerResult(i)
    \/ RpcCall /\ \E identifier \in RemoteIdentifiers, data \in ArgLists :
                     Send(identifier, data)
    \/ RpcCall /\ \E identifier \in RemoteIdentifiers, data \in ArgLists :
                     Waiter(identifier, data)
    \/ RpcCall /\ \E identifier \in Identifiers, cb \in UserCallbacks :
                     SetMessageHandler(identifier, cb)
    \/ RpcCall /\ \E identifier \in Identifiers, cb \in UserCallbacks :
                     OnceMessageHandler(identifier, cb)
    \/ RpcCall /\ \E identifier \in Identifiers : RemoveMessageHandler(identifier)
    \/ RpcCall /\ Disconnect

Spec == Init /\ [][Next]_vars

\* The connection with its lifecycle and listener methods.
NextLife ==
    \/ Connect
    \/ TransportOpen
    \/ TransportError
    \/ TransportClosed
    \/ \E identifier \in RemoteIdentifiers, data \in ArgLists : Send(identifier, data)
    \/ \E e \in EventTypes, f \in UserListeners : AddEventListener(e, f)
    \/ \E e \in EventTypes, f \in UserListeners : RemoveEventListener(e, f)
    \/ \E e \in EventTypes, f \in UserListeners : OnceEventListener(e, f)
    \/ SetErrorHandler("cb2")
    \/ Disconnect
    \/ DisconnectAsync

SpecLife == Init /\ [][NextLife]_vars

\* The remote-call methods under the event loop's scheduling: a handler that
\* can run does run.
SpecFair == Spec /\ WF_vars(Next)

\* The connection with its message handlers and its listeners for inbound
\* messages.
MessageEvents == {"onMessageRecieved", "onRawMessageRecieved"}

\* The envelopes of the peer that carry the argument "a".
ListenTexts ==
    {text \in Texts : text.message = Msg(<<"a">>) /\ text.callbackId # Null}

NextListen ==
    \/ \E urlOk \in BOOLEAN : ConnectTo(urlOk, NoCallback)
    \/ TransportOpen
    \/ TransportError
    \/ TransportClosed
    \/ \E text \in ListenTexts : TransportMessage(text)
    \/ TransportMessage(MalformedText)
    \/ RpcCall /\ \E e \in MessageEvents, f \in UserListeners : AddEventListener(e, f)
    \/ RpcCall /\ \E e \in MessageEvents, f \in UserListeners : OnceEventListener(e, f)
    \/ RpcCall /\ \E identifier \in Identifiers :
                     SetMessageHandler(identifier, UserCallback("a", FALSE))

SpecListen == Init /\ [][NextListen]_vars

\* The connection with a listener that raises an exception.
NextThrow ==
    \/ Connect
    \/ TransportOpen
    \/ TransportError
    \/ TransportClosed
    \/ \E text \in Texts : TransportMessage(text)
    \/ \E i \in 1..Len(pendingResults) : HandlerResult(i)
    \/ \E e \in EventTypes, f \in {"f", Throwing} : AddEventListener(e, f)
    \/ \E cb \in UserCallbacks : SetMessageHandler(<<"h">>, cb)

SpecThrow == Init /\ [][NextThrow]_vars

\* The connection with its waiters and the replies of the peer to them: a
\* reply carries no, one or two arguments, or a null message.
ReplyMessages == {Msg(<<>>), Msg(<<"a">>), Msg(<<"b", "a">>), NullMsg}

ReplyTexts ==
    [identifier : IssuedUuids,
     message : ReplyMessages,
     callbackId : {Null} \cup PeerCallbackIds]

NextReply ==
    \/ \E urlOk \in BOOLEAN : ConnectTo(urlOk, NoCallback)
    \/ TransportOpen
    \/ TransportError
    \/ TransportClosed
    \/ \E text \in ReplyTexts : TransportMessage(text)
    \/ RpcCall /\ \E identifier \in RemoteIdentifiers : Waiter(identifier, <<"a">>)

SpecReply == Init /\ [][NextReply]_vars

\* The connection with one-shot handlers whose callback registers a handler
\* under its own identifier.
OneShotTexts ==
    [identifier : {<<"h">>},
     message : {Msg(<<"a">>)},
     callbackId : {Null} \cup PeerCallbackIds]

NextOneShot ==
    \/ \E urlOk \in BOOLEAN : ConnectTo(urlOk, NoCallback)
    \/ TransportOpen
    \/ TransportError
    \/ TransportClosed
    \/ \E text \in OneShotTexts : TransportMessage(text)
    \/ \E i \in 1..Len(pendingResults) : HandlerResult(i)
    \/ RpcCall /\ \E async \in BOOLEAN :
                     OnceMessageHandler(<<"h">>, RegisteringCallback(async))

SpecOneShot == Init /\ [][NextOneShot]_vars

\* The connection serving the requests of the peer with an asynchronous
\* handler: the request with callbackId p1 carries "a", the one with p2 "b".
ServeTexts ==
    {[identifier |-> <<"h">>, message |-> Msg(<<"a">>), callbackId |-> <<"p1">>],
     [identifier |-> <<"h">>, message |-> Msg(<<"b">>), callbackId |-> <<"p2">>]}

NextServe ==
    \/ \E urlOk \in BOOLEAN : ConnectTo(urlOk, NoCallback)
    \/ TransportOpen
    \/ TransportError
    \/ TransportClosed
    \/ \E text \in ServeTexts : TransportMessage(text)
    \/ \E i \in 1..Len(pendingResults) : HandlerResult(i)
    \/ RpcCall /\ SetMessageHandler(<<"h">>, EchoCallback)

SpecServe == Init /\ [][NextServe]_vars

\* ------------------------------------------------------------------ claims
HasCallable(data) == \E i \in 1..Len(data) : data[i] = Callable

\* C1: when a waiter is pending and the transport delivers a reply envelope
\* whose identifier is that waiter's correlation id and whose message is [v],
\* the waiter's promise is resolved with v; a resolved promise keeps its value.
C1_ReplyResolvesWaiter ==
    [][ /\ nmsgs' # nmsgs =>
              \A w \in 1..Len(waiters) : \A v \in JsonValues : \A text \in Texts :
                 ( /\ waiters[w].state = "pending"
                   /\ text.identifier = waiters[w].uuid
                   /\ text.message = Msg(<<v>>)
                   /\ TransportMessage(text) )
                 => waiters'[w] = [waiters[w] EXCEPT !.state = "resolved", !.value = v]
        /\ \A w \in 1..Len(waiters) :
              waiters[w].state = "resolved" => waiters'[w] = waiters[w] ]_vars

C1_Witness ==
    \E w \in 1..Len(waiters) : waiters[w].state = "resolved" /\ waiters[w].value = "b"

\* C2: waiters outstanding together have distinct correlation ids, and a
\* delivered reply resolves the waiter whose correlation id it carries, with
\* the value it carries, and leaves every other waiter as it was, in whatever
\* order the replies arrive.
C2_DistinctIds ==
    \A w1, w2 \in 1..Len(waiters) : w1 # w2 => waiters[w1].uuid # waiters[w2].uuid

C2_OwnReply ==
    /\ []C2_DistinctIds
    /\ [][nmsgs' # nmsgs =>
             \A text \in Texts :
                TransportMessage(text) =>
                   \A w \in 1..Len(waiters) :
                      waiters[w].state = "pending" =>
                         waiters'[w] =
                            IF text.identifier = waiters[w].uuid /\ ~text.message.isNull
                            THEN [waiters[w] EXCEPT
                                     !.state = "resolved",
                                     !.value = IF Len(text.message.args) >= 1
                                               THEN text.message.args[1] ELSE Undefined]
                            ELSE waiters[w]]_vars

\* The reply to the second call arrived first.
C2_Witness ==
    /\ Len(waiters) = 2
    /\ waiters[1].state = "pending"
    /\ waiters[2].state = "resolved"
    /\ waiters[2].value = "a"

\* C3: send(identifier, args), with serializable args, hands the transport one
\* envelope {identifier, message: args, callbackId: null}.
C3_SendEnvelope ==
    [][\A identifier \in RemoteIdentifiers, data \in ArgLists :
          (Send(identifier, data) /\ ~HasCallable(data)) =>
             sent' = Append(sent, [identifier |-> identifier,
                                   message |-> Msg(data),
                                   callbackId |-> Null])]_vars

\* C4: send with a callable among its arguments throws and hands nothing to
\* the transport.
C4_SendRejectsCallable ==
    [][\A identifier \in RemoteIdentifiers, data \in ArgLists :
          (Send(identifier, data) /\ HasCallable(data)) =>
             (lastCall'.result = "threw" /\ sent' = sent)]_vars

\* C5: waiter with a callable among its arguments returns a rejected promise,
\* registers no handler and hands nothing to the transport.
C5_WaiterRejectsCallable ==
    [][\A identifier \in RemoteIdentifiers, data \in ArgLists :
          (Waiter(identifier, data) /\ HasCallable(data)) =>
             /\ waiters'[Len(waiters')].state = "rejected"
             /\ callbacks' = callbacks
             /\ sent' = sent]_vars

\* C6: once the status is CLOSED or ERROR, no transport event and no call
\* changes it.
C6_TerminalStatus == [][(status \in {CLOSED, ERROR}) => (status' = status)]_vars

\* A public method was called on the closed connection.
C6_Witness == status = CLOSED /\ lastCall.status = CLOSED

\* No onStatusChange callback is called with OPEN after one was called with
\* CLOSED or ERROR.
NoOpenAfterTerminal ==
    \A i, j \in 1..Len(notified) :
        ( /\ i < j
          /\ notified[i].ev = "onStatusChange"
          /\ notified[j].ev = "onStatusChange"
          /\ notified[i].arg \in {CLOSED, ERROR} )
        => notified[j].arg # OPEN

\* C7 as stated: OPEN is entered only from OPENING, CLOSED or ERROR only from
\* OPEN, and no listener is called with OPEN after CLOSED or ERROR.
C7_StrictTransitions ==
    /\ [][status' # status =>
             <<status, status'>> \in {<<OPENING, OPEN>>, <<OPEN, CLOSED>>,
                                      <<OPEN, ERROR>>}]_vars
    /\ []NoOpenAfterTerminal

\* C7 as amended: OPEN is entered only from OPENING, CLOSED or ERROR from OPEN
\* or, when the connection fails before it opens, from OPENING; no listener is
\* called with OPEN after CLOSED or ERROR.
C7_Transitions ==
    /\ [][status' # status =>
             <<status, status'>> \in {<<OPENING, OPEN>>, <<OPEN, CLOSED>>,
                                      <<OPEN, ERROR>>, <<OPENING, CLOSED>>,
                                      <<OPENING, ERROR>>}]_vars
    /\ []NoOpenAfterTerminal

\* The connection failed before it opened and its listener was told CLOSED.
C7_Witness ==
    /\ status = CLOSED
    /\ connectPromise.state = "rejected"
    /\ Len(notified) = 1
    /\ notified[1].arg = CLOSED

\* C8: a transport error event sets the status to ERROR and calls every
\* onStatusChange listener with ERROR.
C8_ErrorSetsStatus ==
    [][TransportError =>
          /\ status' = ERROR
          /\ notified' = notified \o Calls(Called(localEventCallbacks, "onStatusChange"),
                                           "onStatusChange", ERROR)]_vars

\* C9: the promise of connectTo is resolved only while the status is OPEN, and
\* resolve/reject is called on it at most once.
C9_ResolvedWhenOpen ==
    /\ connectPromise.state = "resolved" => connectPromise.statusAtResolve = OPEN
    /\ connectPromise.settles <= 1

C9_Witness == connectPromise.state = "resolved" /\ connectPromise.settles = 1

\* The error callback given to connectTo, if any, has been called.
ErrorCallbackInvoked ==
    connectErrorCallback # NoCallback =>
        \E i \in 1..Len(errLog) : errLog[i].cb = connectErrorCallback

\* C10: when the transport cannot be created, or errors or closes before it
\* has opened, the promise of connectTo does not resolve and is rejected (at the
\* latest when the status becomes CLOSED), and the error callback given to
\* connectTo is called.
C10_FailedConnect ==
    /\ []( /\ (connectPromise.state # "idle" /\ connection = "NONE") =>
                (connectPromise.state = "rejected" /\ ErrorCallbackInvoked)
           /\ (status = OPENING /\ wsErrored) =>
                (connectPromise.state # "resolved" /\ ErrorCallbackInvoked) )
    /\ [][(status = OPENING /\ status' = CLOSED) =>
             (connectPromise'.state = "rejected" /\ ErrorCallbackInvoked')]_vars
    /\ [][connectPromise.state = "rejected" => connectPromise'.state = "rejected"]_vars

\* The transport errored and closed before opening; the callback was called.
C10_Witness ==
    /\ connectPromise.state = "rejected"
    /\ connection = "CLOSED"
    /\ connectErrorCallback = "cb1"
    /\ Len(errLog) = 2

\* The callbacks registered for eventType.
Registered(reg, eventType) ==
    IF eventType \in DOMAIN reg
    THEN {reg[eventType][i] : i \in 1..Len(reg[eventType])}
    ELSE {}

\* How many times the callback l has been called for eventType with arg.
NotifiedCount(log, eventType, l, arg) ==
    Cardinality({i \in 1..Len(log) :
                    log[i].ev = eventType /\ log[i].l = l /\ log[i].arg = arg})

\* C11: once the transport has delivered its close event, every promise
\* returned by disconnectAsync is resolved, whatever other status listeners and
\* other disconnectAsync calls there were.
C11_DisconnectResolves ==
    connection = "CLOSED" =>
        \A d \in 1..Len(disconnects) : disconnects[d].state = "resolved"

\* C12: disconnectAsync called while the status is CLOSED returns a resolved
\* promise, does not call the transport's close(), and leaves the status, the
\* listener registry and the handler table as they were.
C12_AlreadyClosed ==
    [][(status = CLOSED /\ DisconnectAsync) =>
          /\ Len(disconnects') = Len(disconnects) + 1
          /\ disconnects'[Len(disconnects')].state = "resolved"
          /\ ~lastCall'.closes
          /\ connection' = connection
          /\ status' = status
          /\ localEventCallbacks' = localEventCallbacks
          /\ callbacks' = callbacks]_vars

C12_Witness ==
    /\ lastCall.op = "disconnectAsync"
    /\ lastCall.status = CLOSED
    /\ disconnects # <<>>
    /\ disconnects[Len(disconnects)].state = "resolved"

\* C13: when the transport closes after disconnect() was called on an OPEN
\* connection, every registered onStatusChange listener has been called with
\* CLOSED exactly once.
C13_OneClosedNotification ==
    [][( /\ lastCall.op = "disconnect"
         /\ lastCall.status = OPEN
         /\ status = OPEN
         /\ status' = CLOSED ) =>
          \A l \in Registered(localEventCallbacks, "onStatusChange") :
             NotifiedCount(notified', "onStatusChange", l, CLOSED) = 1]_vars

\* C14: once disconnect() has asked an open transport to close, and once the
\* status is CLOSED or ERROR, no message handler is invoked.
C14_NoHandlerAfterDisconnect ==
    [][( \/ connection = "CLOSING" /\ ~wsErrored
         \/ status \in {CLOSED, ERROR} ) => invoked' = invoked]_vars

\* C15: on a transport close event, whatever its code, the status becomes
\* CLOSED and the current error callback is called once, with the event's
\* reason.
C15_CloseEvent ==
    [][\A code \in CloseCodes, reason \in Reasons :
          TransportClose(code, reason) =>
             /\ status' = CLOSED
             /\ errLog' = errLog \o
                   IF errorCallback # NoCallback
                   THEN <<[cb |-> errorCallback, reason |-> reason]>>
                   ELSE <<>>]_vars

\* The transport closed with a reason after setErrorHandler replaced the
\* callback.
C15_Witness ==
    /\ status = CLOSED
    /\ errorCallback = "cb2"
    /\ errLog = <<[cb |-> "cb2", reason |-> "A reason"]>>

\* C16: after setErrorHandler(cb2), a transport error or close calls cb2, and
\* the callback given to connectTo is not called again.
C16_ReplacedHandler ==
    [][errorCallback = "cb2" =>
          /\ \A i \in (Len(errLog) + 1)..Len(errLog') : errLog'[i].cb = "cb2"
          /\ (TransportError \/ TransportClosed) =>
                (Len(errLog') = Len(errLog) + 1 /\ errLog'[Len(errLog')].cb = "cb2")
       ]_vars

\* C17: addEventListener(e, cb) throws and leaves the registry as it was when
\* cb is registered for e, and registers cb otherwise; removeEventListener(e, cb)
\* leaves cb unregistered, so that it can be added again.
C17_DuplicateListener ==
    /\ [][\A e \in EventTypes, f \in UserListeners :
             AddEventListener(e, f) =>
                IF UserListener(f) \in Registered(localEventCallbacks, e)
                THEN /\ lastCall'.result = "threw"
                     /\ localEventCallbacks' = localEventCallbacks
                ELSE /\ lastCall'.result = "ok"
                     /\ localEventCallbacks'[e] =
                           Append(IF e \in DOMAIN localEventCallbacks
                                  THEN localEventCallbacks[e] ELSE <<>>,
                                  UserListener(f))]_vars
    /\ [][\A e \in EventTypes, f \in UserListeners :
             RemoveEventListener(e, f) =>
                UserListener(f) \notin Registered(localEventCallbacks', e)]_vars

\* A second addEventListener with the same callback threw.
C17_Witness ==
    /\ lastCall.op = "addEventListener"
    /\ lastCall.result = "threw"
    /\ localEventCallbacks # EmptyObject

\* C18: removeEventListener(e, cb) returns normally, and leaves the registry as
\* it was when cb is not registered for e.
C18_RemoveAbsent ==
    [][\A e \in EventTypes, f \in UserListeners :
          RemoveEventListener(e, f) =>
             /\ lastCall'.result = "ok"
             /\ UserListener(f) \notin Registered(localEventCallbacks, e) =>
                   localEventCallbacks' = localEventCallbacks]_vars

\* The second of two calls was a removeEventListener that left what the first
\* registered.
C18_Witness ==
    /\ lastCall.op = "removeEventListener"
    /\ ncalls = 2
    /\ localEventCallbacks # EmptyObject

\* C19: a callback registered with onceEventListener is called exactly once in
\* a run in which its event occurs.  CLOSED is the last status change of a run:
\* when it occurs, every one-shot onStatusChange callback has been called once.
C19_OnceInvokedOnce ==
    [][status' = CLOSED /\ status # CLOSED =>
          \A l \in Registered(localEventCallbacks, "onStatusChange") :
             l.once =>
                \E v \in {OPEN, CLOSED} :
                   /\ NotifiedCount(notified', "onStatusChange", l, v) = 1
                   /\ \A u \in {OPEN, CLOSED} \ {v} :
                         NotifiedCount(notified', "onStatusChange", l, u) = 0]_vars

\* C20: an envelope with arguments for an identifier registered with
\* onceMessageHandler invokes the handler once and removes the registration;
\* an envelope for an identifier with no registration invokes nothing and is
\* dropped, whether or not a handler's result is still pending.
C20_OnceHandler ==
    [][nmsgs' # nmsgs =>
          \A text \in Texts :
             ( /\ ~text.message.isNull
               /\ text.identifier[1] # Sigil
               /\ TransportMessage(text) ) =>
                /\ ( /\ text.identifier \in DOMAIN callbacks
                     /\ callbacks[text.identifier].once ) =>
                        /\ invoked' = invoked + 1
                        /\ text.identifier \notin DOMAIN callbacks'
                /\ text.identifier \notin DOMAIN callbacks =>
                        /\ invoked' = invoked
                        /\ callbacks' = callbacks
                        /\ sent' = sent
                        /\ pendingResults' = pendingResults
                        /\ waiters' = waiters]_vars

\* One onceMessageHandler call, two envelopes delivered, one invocation, whose
\* result is still pending, and no registration left.
C20_Witness ==
    /\ ncalls = 1
    /\ lastCall.op = "onceMessageHandler"
    /\ nmsgs = 2
    /\ invoked = 1
    /\ Len(pendingResults) = 1
    /\ callbacks = EmptyObject

C22_WaiterSettles ==
    \A w \in 1..MaxRpcCalls :
       [](Len(waiters) >= w => <>(Len(waiters) >= w /\ waiters[w].state # "pending"))

\* A reply envelope for callbackId carrying the result val.
ReplyEnvelope(callbackId, val) ==
    [identifier |-> callbackId, message |-> Msg(<<JSONValue(val)>>), callbackId |-> Null]

\* C23: when a handler's result is available, the envelope {identifier: the
\* inbound callbackId, message: [result], callbackId: null} is sent if the
\* inbound callbackId is not null, and nothing is sent otherwise.
C23_ReplyEnvelope ==
    [][ /\ \A i \in 1..Len(pendingResults) :
              HandlerResult(i) =>
                 sent' = IF pendingResults[i].callbackId # Null
                         THEN Append(sent, ReplyEnvelope(pendingResults[i].callbackId,
                                                         pendingResults[i].val))
                         ELSE sent
        /\ nmsgs' # nmsgs =>
              \A text \in Texts :
                 ( /\ TransportMessage(text)
                   /\ invoked' = invoked + 1
                   /\ pendingResults' = pendingResults ) =>
                    sent' = IF text.callbackId # Null
                            THEN Append(sent,
                                        ReplyEnvelope(text.callbackId,
                                                      callbacks[text.identifier].cb.ret))
                            ELSE sent ]_vars

\* C24: waiter(identifier, args) hands the transport the one envelope
\* {identifier, message: args, callbackId: c}, c a correlation id not issued
\* before, with the one-shot handler for c in the handler table.
C24_WaiterEnvelope ==
    [][\A identifier \in RemoteIdentifiers, data \in ArgLists :
          (Waiter(identifier, data) /\ ~HasCallable(data)) =>
             LET c == waiters'[Len(waiters')].uuid
             IN /\ sent' = Append(sent, [identifier |-> identifier,
                                         message |-> Msg(data),
                                         callbackId |-> c])
                /\ c \notin IssuedUuids
                /\ c \in DOMAIN callbacks'
                /\ callbacks'[c].once]_vars

\* C25: a status notification calls every callback registered for
\* onStatusChange when it starts, once each, in registration order.
C25_NotifyAll ==
    [][status' # status =>
          notified' = notified \o
             Calls(IF "onStatusChange" \in DOMAIN localEventCallbacks
                   THEN localEventCallbacks["onStatusChange"] ELSE <<>>,
                   "onStatusChange", status')]_vars

\* C26: when a listener raises an exception, the listeners registered after
\* it are still called and the handler that notified them completes: the
\* close handler calls the error callback, the dispatch invokes the message
\* handler.
C26_ExceptionIsolated ==
    [][ /\ status' # status =>
              \A l \in Registered(localEventCallbacks, "onStatusChange") :
                 NotifiedCount(notified', "onStatusChange", l, status') = 1
        /\ (status' = CLOSED /\ status # CLOSED /\ errorCallback # NoCallback) =>
              Len(errLog') = Len(errLog) + 1
        /\ nmsgs' # nmsgs =>
              \A text \in Texts :
                 ( /\ TransportMessage(text)
                   /\ ~text.message.isNull
                   /\ text.identifier \in DOMAIN callbacks ) =>
                    /\ invoked' = invoked + 1
                    /\ \A l \in Registered(localEventCallbacks, "onMessageRecieved") :
                          NotifiedCount(notified', "onMessageRecieved", l, text.message)
                             > NotifiedCount(notified, "onMessageRecieved", l,
                                             text.message) ]_vars

\* C27: an envelope whose identifier starts with "@" invokes no handler, also
\* when one is registered under that identifier, is not passed to the
\* onMessageRecieved listeners, and no reply is sent for it.
C27_ControlEnvelope ==
    [][nmsgs' # nmsgs =>
          \A text \in Texts :
             (text.identifier[1] = Sigil /\ TransportMessage(text)) =>
                /\ invoked' = invoked
                /\ sent' = sent
                /\ pendingResults' = pendingResults
                /\ callbacks' = callbacks
                /\ \A i \in (Len(notified) + 1)..Len(notified') :
                      notified'[i].ev # "onMessageRecieved"]_vars

\* A raw listener, registered after a handler for "@h", saw an envelope for
\* "@h" that asks for a reply; nothing was invoked and nothing sent.
C27_Witness ==
    /\ <<Sigil, "h">> \in DOMAIN callbacks
    /\ lastCall.op = "addEventListener"
    /\ \E i \in 1..Len(notified) :
          /\ notified[i].ev = "onRawMessageRecieved"
          /\ WellFormed(notified[i].arg)
          /\ notified[i].arg.identifier = <<Sigil, "h">>
          /\ notified[i].arg.callbackId # Null
    /\ invoked = 0
    /\ sent = <<>>

\* C28: a text that cannot be decoded is discarded: no handler is invoked,
\* nothing is sent, the status, the handler table and the listener registry
\* stay as they were, and the connection goes on receiving.
C28_MalformedDiscarded ==
    [][TransportMessage(MalformedText) =>
          /\ invoked' = invoked
          /\ sent' = sent
          /\ status' = status
          /\ callbacks' = callbacks
          /\ localEventCallbacks' = localEventCallbacks
          /\ connection' = connection]_vars

\* C29: an ordinary envelope whose identifier has no handler invokes nothing,
\* has nothing sent for it, also when it asks for a reply, and leaves the
\* handler table as it was.
C29_UnknownIdentifier ==
    [][nmsgs' # nmsgs =>
          \A text \in Texts :
             ( /\ text.identifier[1] # Sigil
               /\ text.identifier \notin DOMAIN callbacks
               /\ TransportMessage(text) ) =>
                /\ invoked' = invoked
                /\ sent' = sent
                /\ pendingResults' = pendingResults
                /\ callbacks' = callbacks]_vars

\* A raw listener saw an envelope for "h" that asks for a reply; "h" has no
\* handler, nothing was invoked and nothing sent.
C29_Witness ==
    /\ <<"h">> \notin DOMAIN callbacks
    /\ \E i \in 1..Len(notified) :
          /\ notified[i].ev = "onRawMessageRecieved"
          /\ WellFormed(notified[i].arg)
          /\ notified[i].arg.identifier = <<"h">>
          /\ notified[i].arg.callbackId # Null
    /\ invoked = 0
    /\ sent = <<>>

\* Every registered raw listener is called once more, with text.
RawNotified(text) ==
    \A l \in Registered(localEventCallbacks, "onRawMessageRecieved") :
       NotifiedCount(notified', "onRawMessageRecieved", l, text)
          = NotifiedCount(notified, "onRawMessageRecieved", l, text) + 1

\* C30: for every inbound text, malformed and control envelopes included,
\* every raw listener is called exactly once with that text.
C30_RawNotified ==
    [][nmsgs' # nmsgs =>
          /\ \A text \in Texts : TransportMessage(text) => RawNotified(text)
          /\ TransportMessage(MalformedText) => RawNotified(MalformedText)]_vars

\* Every registered message listener is called once more, with message.
MessageNotified(message) ==
    \A l \in Registered(localEventCallbacks, "onMessageRecieved") :
       NotifiedCount(notified', "onMessageRecieved", l, message)
          = NotifiedCount(notified, "onMessageRecieved", l, message) + 1

\* C31: for every inbound ordinary envelope, every message listener is called
\* exactly once with the envelope's message, in the task that delivers the
\* envelope, whether or not a handler is registered for its identifier.
C31_MessageNotified ==
    [][nmsgs' # nmsgs =>
          \A text \in Texts :
             (TransportMessage(text) /\ ~IsControl(text)) =>
                MessageNotified(text.message)]_vars

\* The values one argument of a reply can be.
Scalars == JsonValues \cup {Undefined, JsonNull}

\* The w-th waiter is pending and text is a reply to it that carries arguments.
RepliesTo(text, w) ==
    /\ waiters[w].state = "pending"
    /\ waiters[w].uuid = text.identifier
    /\ ~text.message.isNull

\* C32, as stated: a waiter's promise resolves with the first argument of a
\* reply that carries exactly one argument, and with the whole argument
\* sequence of any other reply.
C32_ReplyShape ==
    [][nmsgs' # nmsgs =>
          \A text \in ReplyTexts, w \in 1..Len(waiters) :
             (TransportMessage(text) /\ RepliesTo(text, w)) =>
                /\ waiters'[w].state = "resolved"
                /\ IF Len(text.message.args) = 1
                   THEN waiters'[w].value = text.message.args[1]
                   ELSE /\ waiters'[w].value \notin Scalars
                        /\ waiters'[w].value = text.message.args]_vars

\* C32, amended: a waiter's promise resolves with the first argument of the
\* reply, however many arguments the reply carries, and with undefined when
\* the reply carries none.
C32_FirstArgument ==
    [][nmsgs' # nmsgs =>
          \A text \in ReplyTexts, w \in 1..Len(waiters) :
             (TransportMessage(text) /\ RepliesTo(text, w)) =>
                /\ waiters'[w].state = "resolved"
                /\ waiters'[w].value = IF text.message.args = <<>> THEN Undefined
                                       ELSE Head(text.message.args)]_vars

\* One waiter got the reply with two arguments, another the reply with none.
C32_Witness ==
    /\ Len(waiters) = 2
    /\ waiters[1].state = "resolved" /\ waiters[1].value = "b"
    /\ waiters[2].state = "resolved" /\ waiters[2].value = Undefined

\* The waiters whose promise has not resolved.
Outstanding == {w \in 1..Len(waiters) : waiters[w].state = "pending"}

\* C33: the handler-table entries keyed by correlation ids are the one-shot
\* entries of the outstanding waiters, one id per waiter; the entry of a waiter
\* whose reply was dispatched is gone.
C33_WaiterEntries ==
    /\ {id \in DOMAIN callbacks : id \in IssuedUuids}
          = {waiters[w].uuid : w \in Outstanding}
    /\ \A v, w \in Outstanding : v # w => waiters[v].uuid # waiters[w].uuid
    /\ \A w \in Outstanding :
          callbacks[waiters[w].uuid] = [once |-> TRUE, cb |-> ResolveCallback(w)]

\* Of two waiters the first got its reply and the second is outstanding.
C33_Witness ==
    /\ Len(waiters) = 2
    /\ waiters[1].state = "resolved"
    /\ waiters[2].state = "pending"
    /\ waiters[1].uuid \notin DOMAIN callbacks
    /\ waiters[2].uuid \in DOMAIN callbacks

\* C34: when the callback of a one-shot handler registers a handler under its
\* own identifier while it runs, that registration is in the table after the
\* dispatch, and is still there when the callback's result arrives.
C34_Reregistered ==
    [][ /\ nmsgs' # nmsgs =>
              \A text \in OneShotTexts :
                 (/\ TransportMessage(text)
                  /\ text.identifier \in DOMAIN callbacks
                  /\ callbacks[text.identifier].once
                  /\ callbacks[text.identifier].cb.kind = "register") =>
                    /\ invoked' = invoked + 1
                    /\ text.identifier \in DOMAIN callbacks'
                    /\ callbacks'[text.identifier] =
                          [once |-> FALSE, cb |-> UserCallback("a", FALSE)]
        /\ \A i \in 1..Len(pendingResults) :
              HandlerResult(i) => callbacks' = callbacks]_vars

\* The one-shot handler was invoked, its callback has completed, and the
\* handler it registered is in the table.
C34_Witness ==
    /\ ncalls = 1
    /\ invoked >= 1
    /\ pendingResults = <<>>
    /\ <<"h">> \in DOMAIN callbacks
    /\ ~callbacks[<<"h">>].once

\* C35: the listener registry maps no event type to an empty sequence and
\* holds no callback twice for one event type.
C35_RegistryShape ==
    \A e \in DOMAIN localEventCallbacks :
       LET array == localEventCallbacks[e]
       IN /\ array # <<>>
          /\ \A i, j \in 1..Len(array) : i # j => array[i] # array[j]

\* A one-shot listener of the application was called and removed itself, and
\* its event type has no listener left.
C35_Witness ==
    \E i \in 1..Len(notified) :
       /\ notified[i].l.once
       /\ notified[i].l.cb \in UserListeners
       /\ notified[i].ev \notin DOMAIN localEventCallbacks

\* C36: the handler of an inbound ordinary envelope is started in the task
\* that delivers the envelope, so handlers start in delivery order, whether or
\* not the result of an earlier asynchronous handler is still pending.
C36_DeliveryOrder ==
    [][nmsgs' # nmsgs =>
          \A text \in Texts :
             (/\ ~IsControl(text)
              /\ ~text.message.isNull
              /\ text.identifier \in DOMAIN callbacks
              /\ TransportMessage(text)) =>
                /\ invoked' = invoked + 1
                /\ callbacks[text.identifier].cb.async =>
                      /\ Len(pendingResults') = Len(pendingResults) + 1
                      /\ SubSeq(pendingResults', 1, Len(pendingResults))
                            = pendingResults]_vars

\* Two asynchronous handlers were started and neither has finished.
C36_Witness ==
    /\ invoked = 2
    /\ Len(pendingResults) = 2

\* C37: an inbound envelope with a null message invokes no handler and sends
\* no reply, whatever its callbackId; a waiter it is addressed to stays pending
\* and the waiter's one-shot handler stays registered.
C37_NullMessage ==
    [][nmsgs' # nmsgs =>
          \A text \in ReplyTexts :
             (TransportMessage(text) /\ text.message.isNull) =>
                /\ invoked' = invoked
                /\ sent' = sent
                /\ pendingResults' = pendingResults
                /\ callbacks' = callbacks
                /\ waiters' = waiters]_vars

\* The one waiter got a reply, and is pending with its handler registered.
C37_Witness ==
    /\ ncalls = 1
    /\ nmsgs = 1
    /\ Len(waiters) = 1
    /\ waiters[1].state = "pending"
    /\ waiters[1].uuid \in DOMAIN callbacks

\* C38: every reply sent carries the callbackId of a request and the value the
\* handler produced for that request, and every handler invocation accounts
\* for exactly one reply, sent or still pending.
C38_OwnCallbackId ==
    /\ \A i \in 1..Len(sent) :
          sent[i] \in {ReplyEnvelope(text.callbackId, Head(text.message.args)) :
                         text \in ServeTexts}
    /\ Len(sent) + Len(pendingResults) = invoked

\* C39: nothing is handed to the transport while the status is CLOSED.
C39_NoSendAfterClosed ==
    [][status = CLOSED => sent' = sent]_vars

\* C40: removeEventListener(e, cb) leaves every one-shot adapter registered,
\* and after it the adapters of the application's callbacks are called at the
\* next occurrence of the event.
C40_OnceNotCancelled ==
    [][ /\ \A e \in EventTypes, f \in UserListeners :
              RemoveEventListener(e, f) =>
                 \A l \in Registered(localEventCallbacks, e) :
                    l.once => l \in Registered(localEventCallbacks', e)
        /\ (status' # status /\ lastCall.op = "removeEventListener") =>
              \A l \in Registered(localEventCallbacks, "onStatusChange") :
                 (l.once /\ l.cb \in UserListeners) =>
                    NotifiedCount(notified', "onStatusChange", l, status')
                       = NotifiedCount(notified, "onStatusChange", l, status') + 1
      ]_vars
====
